---- MODULE Spec2Model ----
(***************************************************************************)
(* The Prometheus remote-write storage of src/query/storage/promremote:    *)
(* producers call Write, which hands queries to the queryQueue channel;    *)
(* the writeLoop goroutine routes them to per-tenant WriteQueues, submits  *)
(* full batches and tick/drain flushes to the worker pool; workers run     *)
(* writeBatch, whose write retries the HTTP request; Close closes the      *)
(* channel and waits for the loop to finish.                               *)
(***************************************************************************)
EXTENDS Integers, Sequences, FiniteSets, Bags, TLC

VARIABLES
    opts,          \* Options: queueSize, poolSize, retries, tenantRules, tenantDefault
    env,           \* what the callers and the endpoint may do (fixed by Init)
    budget,        \* Write calls the producers may still start
    nextId,        \* identity of the next WriteQuery object handed to the channel
    writers,       \* ids whose Write has sent and not yet counted enqueued
    queryQueue,    \* p.queryQueue: the buffered channel's contents
    closed,        \* close(p.queryQueue) has run
    pendingQuery,  \* p.pendingQuery: tenantKey -> WriteQueue.queries
    loop,          \* the writeLoop goroutine: pc, stop and its locals
    wg,            \* the sync.WaitGroup of writeLoop
    workers,       \* worker pool slot -> the job it runs (or Idle)
    closer,        \* the Close call: "idle", "cancel", "recv", "returned"
    panicked,      \* a goroutine panicked (send on closed channel): process gone
    metrics,       \* the tally counters
    received,      \* bag of [tenant, queries]: requests the endpoint answered 2xx
    warns,         \* "don't do tick flush for small batch" warnings logged (capped)
    returns,       \* what NewStorage returned, and the Write calls in call order
    wq             \* one WriteQueue with goroutines inside its methods

storageVars == <<opts, env, budget, nextId, writers, queryQueue, closed,
                 pendingQuery, loop, wg, workers, closer, panicked, metrics,
                 received, warns, returns>>

vars == <<storageVars, wq>>

(***************************************************************************)
(* Bounds of the model.                                                    *)
(***************************************************************************)
MaxWrites == 3
MaxRetries == 3
MaxWarns == 2
MaxCalls == 4
NumGoroutines == 2
MaxPool == 1

(***************************************************************************)
(* Program constants.                                                      *)
(***************************************************************************)
StatusConflict == 409
StatusTooManyRequests == 429
StatusServiceUnavailable == 503
TickDivisor == 10

\* A transport failure of client.Do (no HTTP response at all).
TransportError == 0

(***************************************************************************)
(* Tenant classification.                                                  *)
(***************************************************************************)
\* rule.Filter.MatchTags(tags): a filter names one tag the query must carry.
MatchTags(filter, tags) == filter \in tags

RECURSIVE firstMatch(_, _, _)
firstMatch(rules, tags, default) ==
    IF rules = <<>> THEN default
    ELSE IF MatchTags(Head(rules).Filter, tags) THEN Head(rules).Tenant
    ELSE firstMatch(Tail(rules), tags, default)

RECURSIVE lastMatch(_, _, _)
lastMatch(rules, tags, default) ==
    IF rules = <<>> THEN default
    ELSE LET rest == lastMatch(Tail(rules), tags, default)
         IN  IF rest # default THEN rest
             ELSE IF MatchTags(Head(rules).Filter, tags) THEN Head(rules).Tenant
             ELSE default

getTenantLastRule(query) == lastMatch(opts.tenantRules, query.tags, opts.tenantDefault)

getTenant(query) == firstMatch(opts.tenantRules, query.tags, opts.tenantDefault)

\* The keys NewStorage gives p.pendingQuery.
FixedTenantsDefaultOnly(o) == {o.tenantDefault}

FixedTenantsWithoutDefault(o) ==
    {o.tenantRules[k].Tenant : k \in DOMAIN o.tenantRules}

FixedTenants(o) ==
    {o.tenantDefault} \cup {o.tenantRules[k].Tenant : k \in DOMAIN o.tenantRules}

(***************************************************************************)
(* WriteQueue.  Every method runs under the queue's mutex, so each is one  *)
(* atomic step on the queue's queries.                                     *)
(***************************************************************************)
NewWriteQueue == <<>>

popUnderLock(queries) == [res |-> queries, queries |-> NewWriteQueue]

AddWhenOverCapacity(queries, query, capacity) ==
    IF Len(queries) > capacity
    THEN [nil |-> FALSE, dataBatch |-> popUnderLock(queries).res,
          queries |-> popUnderLock(queries).queries]
    ELSE [nil |-> TRUE, dataBatch |-> <<>>, queries |-> Append(queries, query)]

AddPrepends(queries, query, capacity) ==
    IF Len(queries) >= capacity
    THEN [nil |-> FALSE, dataBatch |-> queries, queries |-> <<>>]
    ELSE [nil |-> TRUE, dataBatch |-> <<>>, queries |-> <<query>> \o queries]

AddKeepsIncoming(queries, query, capacity) ==
    IF Len(queries) >= capacity
    THEN [nil |-> FALSE, dataBatch |-> popUnderLock(queries).res,
          queries |-> Append(popUnderLock(queries).queries, query)]
    ELSE [nil |-> TRUE, dataBatch |-> <<>>, queries |-> Append(queries, query)]

Add(queries, query, capacity) ==
    IF Len(queries) >= capacity
    THEN [nil |-> FALSE, dataBatch |-> popUnderLock(queries).res,
          queries |-> popUnderLock(queries).queries]
    ELSE [nil |-> TRUE, dataBatch |-> <<>>, queries |-> Append(queries, query)]

(***************************************************************************)
(* The same methods statement by statement, for goroutines that call them  *)
(* on one queue at the same time.  wq holds the queue (capacity, queries), *)
(* its RWMutex (writer, readers), each goroutine's place in its call, and  *)
(* out: for every query, the number of returned batches it was part of.    *)
(***************************************************************************)
\* wq.Lock() / wq.RLock() can be taken.
lockNeverWaits(exclusive) == TRUE

CanLock(exclusive) ==
    /\ wq.writer = 0
    /\ exclusive => wq.readers = {}

IdleCall == [op |-> "none", pc |-> "idle", query |-> 0, res |-> <<>>]

\* A goroutine calls Add(query), pop() or Len().
QueueCall(g, op) ==
    /\ wq.calls[g].pc = "idle"
    /\ wq.budget > 0
    /\ wq' = [wq EXCEPT !.budget = @ - 1,
                        !.nextQuery = IF op = "Add" THEN @ + 1 ELSE @,
                        !.calls[g] = [op |-> op, pc |-> "lock", res |-> <<>>,
                                      query |-> IF op = "Add" THEN wq.nextQuery ELSE 0]]
    /\ UNCHANGED storageVars

\* wq.Lock() in Add and pop, wq.RLock() in Len.
QueueLock(g) ==
    /\ wq.calls[g].pc = "lock"
    /\ CanLock(wq.calls[g].op # "Len")
    /\ wq' = [wq EXCEPT !.writer = IF wq.calls[g].op # "Len" THEN g ELSE @,
                        !.readers = IF wq.calls[g].op = "Len" THEN @ \cup {g} ELSE @,
                        !.calls[g].pc = IF wq.calls[g].op = "pop" THEN "popRead" ELSE "body"]
    /\ UNCHANGED storageVars

\* Add: if len(wq.queries) >= wq.capacity go on to popUnderLock, else append.
QueueAddBody(g) ==
    /\ wq.calls[g].pc = "body"
    /\ wq.calls[g].op = "Add"
    /\ wq' = IF Len(wq.queries) >= wq.capacity
             THEN [wq EXCEPT !.calls[g].pc = "popRead"]
             ELSE [wq EXCEPT !.queries = Append(@, wq.calls[g].query),
                             !.calls[g].pc = "unlock"]
    /\ UNCHANGED storageVars

\* Len: return len(wq.queries)
QueueLenBody(g) ==
    /\ wq.calls[g].pc = "body"
    /\ wq.calls[g].op = "Len"
    /\ wq' = [wq EXCEPT !.calls[g].pc = "unlock"]
    /\ UNCHANGED storageVars

\* popUnderLock: res := wq.queries
QueuePopRead(g) ==
    /\ wq.calls[g].pc = "popRead"
    /\ wq' = [wq EXCEPT !.calls[g].res = wq.queries,
                        !.calls[g].pc = "popReset"]
    /\ UNCHANGED storageVars

\* popUnderLock: wq.queries = make(...); return res
QueuePopReset(g) ==
    /\ wq.calls[g].pc = "popReset"
    /\ wq' = [wq EXCEPT !.queries = NewWriteQueue,
                        !.calls[g].pc = "unlock"]
    /\ UNCHANGED storageVars

\* The deferred Unlock / RUnlock, and the return of the call's batch.
QueueUnlock(g) ==
    /\ wq.calls[g].pc = "unlock"
    /\ wq' = [wq EXCEPT !.writer = IF @ = g THEN 0 ELSE @,
                        !.readers = @ \ {g},
                        !.out = [q \in DOMAIN @ |->
                                    @[q] + Cardinality({k \in DOMAIN wq.calls[g].res :
                                                           wq.calls[g].res[k] = q})],
                        !.calls[g] = IdleCall]
    /\ UNCHANGED storageVars

\* A storage whose queues are only used through the atomic steps above.
NoQueueCalls ==
    [capacity |-> 0, queries |-> <<>>, writer |-> 0, readers |-> {},
     calls |-> <<>>, budget |-> 0, nextQuery |-> 1, out |-> <<>>]

(***************************************************************************)
(* doRequest and the retry loop of write.                                  *)
(***************************************************************************)
doRequest(resp) ==
    IF resp = TransportError
    THEN [status |-> StatusServiceUnavailable, err |-> "connect"]
    ELSE IF resp \div 100 # 2
    THEN IF resp < 500 /\ resp # StatusTooManyRequests
         THEN [status |-> resp, err |-> "invalidParams"]
         ELSE [status |-> resp, err |-> "generic"]
    ELSE [status |-> resp, err |-> "nil"]

\* The break condition of the loop: err == nil || status == http.StatusConflict.
attemptEndsOnlyOnNil(r) == r.err = "nil"

attemptEnds(r) == r.err = "nil" \/ r.status = StatusConflict

\* The loop condition i >= 0, read after i--.
loopStopsOneEarly(i) == i > 0

loopContinues(i) == i >= 0

(***************************************************************************)
(* NewStorage.                                                             *)
(***************************************************************************)
\* The error validateOptions returns ("nil": none).  endpoints is the number
\* of endpoints configured.
validateOptions(o) ==
    IF o.poolSize < 1 THEN "poolSize must be greater than 0"
    ELSE IF o.queueSize < 1 THEN "queueSize must be greater than 0 to batch writes"
    ELSE IF o.retries < 0 THEN "retries must be greater than or equal to 0"
    ELSE IF o.tickDuration.nil THEN "tickDuration must be set"
    ELSE IF o.endpoints = 0 THEN "endpoint must not be empty"
    ELSE "nil"

(***************************************************************************)
(* The headers of the request write builds.  A header value is the         *)
(* sequence of the parts it is formatted from.                             *)
(***************************************************************************)
NoHeaders == [name \in {} |-> <<>>]

\* http.Header.Set stores a value under textproto.CanonicalMIMEHeaderKey of
\* the name: the first letter and every letter after a hyphen in upper case,
\* the others in lower case.  The table covers the names used here.
CanonicalMIMEHeaderKey(name) ==
    CASE name \in {"x-scope-orgid", "X-Scope-OrgID"} -> "X-Scope-Orgid"
      [] name \in {"authorization", "Authorization"} -> "Authorization"
      [] name = "content-encoding" -> "Content-Encoding"
      [] OTHER -> name

\* req.Header.Set(name, value): replaces what the canonical name held.
HeaderSet(header, name, value) ==
    [key \in DOMAIN header \cup {CanonicalMIMEHeaderKey(name)} |->
        IF key = CanonicalMIMEHeaderKey(name) THEN value ELSE header[key]]

\* for k, v := range endpoint.otherHeaders { req.Header.Set(k, v) }: a map is
\* ranged over in any order, so this is the set of headers that can result.
RECURSIVE SetOtherHeaders(_, _, _)
SetOtherHeaders(header, otherHeaders, names) ==
    IF names = {} THEN {header}
    ELSE UNION {SetOtherHeaders(HeaderSet(header, k, otherHeaders[k]),
                                otherHeaders, names \ {k}) : k \in names}

\* fmt.Sprintf("Basic %s", base64(tenant + ":" + apiToken))
BasicAuth(tenant, apiToken) == <<"Basic", tenant, apiToken>>

\* The two fixed headers, then Authorization when there is a token.
FixedHeaders(endpoint, tenant) ==
    LET fixed == HeaderSet(HeaderSet(NoHeaders, "content-encoding", <<"snappy">>),
                           "Content-Type", <<"application/x-protobuf">>)
    IN  IF endpoint.apiToken # ""
        THEN HeaderSet(fixed, "Authorization", BasicAuth(tenant, endpoint.apiToken))
        ELSE fixed

\* The headers write gives the request, in the order of its Set calls: the
\* fixed ones, Authorization, otherHeaders, and the tenant header last.
requestHeadersTenantFirst(endpoint, tenant) ==
    SetOtherHeaders(HeaderSet(FixedHeaders(endpoint, tenant),
                              endpoint.tenantHeader, <<tenant>>),
                    endpoint.otherHeaders, DOMAIN endpoint.otherHeaders)

requestHeaders(endpoint, tenant) ==
    {HeaderSet(header, endpoint.tenantHeader, <<tenant>>) :
        header \in SetOtherHeaders(FixedHeaders(endpoint, tenant),
                                   endpoint.otherHeaders,
                                   DOMAIN endpoint.otherHeaders)}

\* What the endpoint reads in the tenant header of a request.
TenantHeader(header) ==
    header[CanonicalMIMEHeaderKey(opts.endpoint.tenantHeader)][1]

(***************************************************************************)
(* Small helpers on the state.                                             *)
(***************************************************************************)
Idle == [kind |-> "idle", pc |-> "idle", t |-> "", queries |-> <<>>,
         i |-> 0, resps |-> <<>>, err |-> "nil", errInc |-> 0, read |-> 0,
         header |-> NoHeaders]

NewJob(kind, t, queries) ==
    [kind |-> kind, pc |-> IF kind = "flush" THEN "pop" ELSE "writeBatch",
     t |-> t, queries |-> queries, i |-> 0, resps |-> <<>>, err |-> "nil",
     errInc |-> 0, read |-> 0, header |-> NoHeaders]

\* xsync.NewWorkerPool(opts.poolSize): one slot for each worker of the pool.
NewWorkerPoolOneMore(size) == [s \in 1..(size + 1) |-> Idle]

NewWorkerPool(size) == [s \in 1..size |-> Idle]

IdleSlots == {s \in DOMAIN workers : workers[s].pc = "idle"}

\* workerPool.Go hands the job to a free worker; the lowest free slot stands
\* for any of them.
FreeSlot == CHOOSE s \in IdleSlots : \A u \in IdleSlots : s <= u

Inc(counter, n) == [metrics EXCEPT ![counter] = @ + n]

LoopAt(pc) == [loop EXCEPT !.pc = pc]

(***************************************************************************)
(* Write (a producer's call).                                              *)
(***************************************************************************)
\* The record of one more Write call: what was passed, the identity of the
\* query it put on the channel (0: none), what it returned ("pending" until
\* it returns) and, when Write enqueued a copy, the tags the caller's
\* original holds now (otherwise the enqueued query is the caller's object
\* and holds them).
Called(kind, id, err, original) ==
    [returns EXCEPT !.Write = Append(@, [kind |-> kind, id |-> id, err |-> err,
                                         original |-> original])]

\* The query object a caller passes: alias names the caller's object whose
\* tag and datapoint memory the query uses (0: memory of its own).
WriteQuery(id, tags) == [id |-> id, tags |-> tags, alias |-> id]

\* storage.NewWriteQuery(deepCopy(query.Options())): new slices for the
\* datapoints and the tags, new byte arrays for every tag name and value,
\* filled from the original.
deepCopySharesTags(query) == query

deepCopy(query) == [query EXCEPT !.alias = 0]

\* NewStorage(opts): on a validation error it returns the error and nothing
\* else happens; otherwise it builds the queues, the channel and the worker
\* pool, starts the writeLoop goroutine and returns the storage.
NewStorage ==
    /\ returns.NewStorage = "none"
    /\ returns' = [returns EXCEPT !.NewStorage = validateOptions(opts)]
    /\ IF validateOptions(opts) = "nil"
       THEN /\ pendingQuery' = [t \in FixedTenants(opts) |-> NewWriteQueue]
            /\ workers' = NewWorkerPool(opts.poolSize)
            /\ loop' = LoopAt("init")
       ELSE UNCHANGED <<pendingQuery, workers, loop>>
    /\ UNCHANGED <<wq, opts, env, budget, nextId, writers, queryQueue, closed, wg,
                   closer, panicked, metrics, received, warns>>

\* writeLoop up to its for loop: workerPool.Init() and
\* time.NewTicker(*p.opts.tickDuration), which panics unless the duration is
\* positive.
LoopInit ==
    /\ ~panicked
    /\ loop.pc = "init"
    /\ IF opts.tickDuration.d > 0
       THEN loop' = LoopAt("select") /\ UNCHANGED panicked
       ELSE panicked' = TRUE /\ UNCHANGED loop
    /\ UNCHANGED <<wq, returns, opts, env, budget, nextId, writers, queryQueue,
                   closed, pendingQuery, wg, workers, closer, metrics, received,
                   warns>>

\* query.Options().DuplicateWrite
isDuplicateNever(kind) == FALSE

isDuplicate(kind) == kind = "dup"

\* Write up to and including the channel send.  kind is what the caller
\* passes: a nil query, one with DuplicateWrite, one with FromIngestor (whose
\* copy NewWriteQuery may refuse), or a plain one.  The checks before the
\* send touch only counters, so the step is taken at the send: it waits
\* while the buffer is full and panics once the channel is closed.
Write(kind, tags, copyOk) ==
    /\ ~panicked
    /\ returns.NewStorage = "nil"
    /\ budget > 0
    /\ Cardinality(writers) < env.producers
    /\ budget' = budget - 1
    /\ CASE kind = "nil" ->
              /\ returns' = Called(kind, 0, "nil", {})
              /\ UNCHANGED <<metrics, writers, nextId, queryQueue, panicked>>
         [] kind # "nil" /\ isDuplicate(kind) ->
              /\ metrics' = Inc("dupWrites", 1)
              /\ returns' = Called(kind, 0, "nil", {})
              /\ UNCHANGED <<writers, nextId, queryQueue, panicked>>
         [] kind = "ingestor" /\ ~isDuplicate(kind) /\ ~copyOk ->
              /\ metrics' = [metrics EXCEPT !["ingestorWrites"] = @ + 1,
                                            !["enqueueErr"] = @ + 1]
              /\ returns' = Called(kind, 0, "copy", {})
              /\ UNCHANGED <<writers, nextId, queryQueue, panicked>>
         [] OTHER ->
              /\ closed \/ Len(queryQueue) < opts.queueSize
              /\ metrics' = IF kind = "ingestor"
                            THEN Inc("ingestorWrites", 1) ELSE metrics
              /\ IF closed
                 THEN /\ panicked' = TRUE
                      /\ returns' = Called(kind, 0, "panic", {})
                      /\ UNCHANGED <<writers, nextId, queryQueue>>
                 ELSE /\ queryQueue' =
                           Append(queryQueue,
                                  IF kind = "ingestor"
                                  THEN deepCopy(WriteQuery(nextId, tags))
                                  ELSE WriteQuery(nextId, tags))
                      /\ writers' = writers \cup {nextId}
                      /\ nextId' = nextId + 1
                      /\ returns' = Called(kind, nextId, "pending",
                                          IF kind = "ingestor" THEN tags ELSE {})
                      /\ UNCHANGED panicked
    /\ UNCHANGED <<wq, opts, env, closed, pendingQuery, loop, wg, workers, closer,
                   received, warns>>

\* The same sequence of queries after the tag memory of the caller's object
\* id is overwritten with tags.
Retag(queries, id, tags) ==
    [k \in DOMAIN queries |-> IF queries[k].alias = id
                              THEN [queries[k] EXCEPT !.tags = tags]
                              ELSE queries[k]]

\* The queries the storage still holds as objects: on the channel, in the
\* queues, in a popped batch, in a job that has not encoded its batch yet.
HeldQueries ==
    {queryQueue[k] : k \in DOMAIN queryQueue}
        \cup UNION {{pendingQuery[t][k] : k \in DOMAIN pendingQuery[t]} :
                       t \in DOMAIN pendingQuery}
        \cup {loop.dataBatch[k] : k \in DOMAIN loop.dataBatch}
        \cup UNION {{workers[s].queries[k] : k \in DOMAIN workers[s].queries} :
                       s \in {u \in DOMAIN workers : workers[u].pc = "writeBatch"}}

\* The tags in the caller's original of the copy Write enqueued as query id.
Original(id) ==
    LET k == CHOOSE k \in DOMAIN returns.Write : returns.Write[k].id = id
    IN  returns.Write[k].original

\* A producer reuses a WriteQuery object it has written, for another time
\* series, while the storage still holds the query: the tags change in the
\* caller's object and wherever the storage holds a query that uses its
\* memory.  A batch is encoded in the step of its tenant check, and the
\* encoded bytes no longer change.
ResetWriteQuery(id, tags) ==
    /\ ~panicked
    /\ \E k \in DOMAIN returns.Write :
          /\ returns.Write[k].id = id
          /\ returns.Write[k].err = "nil"
    /\ \E query \in HeldQueries :
          /\ query.id = id
          /\ tags # (IF query.alias = id THEN query.tags ELSE Original(id))
    /\ returns' = [returns EXCEPT !.Write =
                       [k \in DOMAIN @ |->
                           IF @[k].id = id /\ @[k].kind = "ingestor"
                           THEN [@[k] EXCEPT !.original = tags] ELSE @[k]]]
    /\ queryQueue' = Retag(queryQueue, id, tags)
    /\ pendingQuery' = [t \in DOMAIN pendingQuery |-> Retag(pendingQuery[t], id, tags)]
    /\ loop' = [loop EXCEPT !.dataBatch = Retag(@, id, tags)]
    /\ workers' = [s \in DOMAIN workers |->
                      IF workers[s].pc = "writeBatch"
                      THEN [workers[s] EXCEPT !.queries = Retag(@, id, tags)]
                      ELSE workers[s]]
    /\ UNCHANGED <<wq, opts, env, budget, nextId, writers, closed, wg,
                   closer, panicked, metrics, received, warns>>

\* p.enqueued.Inc(1); return nil
WriteReturnSurfacesErrors(w) ==
    /\ ~panicked
    /\ w \in writers
    /\ writers' = writers \ {w}
    /\ metrics' = Inc("enqueued", 1)
    /\ returns' = [returns EXCEPT !.Write =
                       [k \in DOMAIN @ |->
                           IF @[k].id = w
                           THEN [@[k] EXCEPT !.err = IF metrics["batchWriteErr"] > 0
                                                     THEN "batch" ELSE "nil"]
                           ELSE @[k]]]
    /\ UNCHANGED <<wq, opts, env, budget, nextId, queryQueue, closed, pendingQuery,
                   loop, wg, workers, closer, panicked, received,
                   warns>>

WriteReturn(w) ==
    /\ ~panicked
    /\ w \in writers
    /\ writers' = writers \ {w}
    /\ metrics' = Inc("enqueued", 1)
    /\ returns' = [returns EXCEPT !.Write =
                       [k \in DOMAIN @ |-> IF @[k].id = w
                                           THEN [@[k] EXCEPT !.err = "nil"] ELSE @[k]]]
    /\ UNCHANGED <<wq, opts, env, budget, nextId, queryQueue, closed, pendingQuery,
                   loop, wg, workers, closer, panicked, received,
                   warns>>

(***************************************************************************)
(* writeLoop.                                                              *)
(***************************************************************************)
\* Where the loop goes once flushPendingQueues has ranged over todo.
AfterRangeForgetsStop(todo, stop) ==
    IF todo # {} THEN "flush" ELSE "select"

AfterRange(todo, stop) ==
    IF todo # {} THEN "flush" ELSE IF stop THEN "wait" ELSE "select"

\* The first argument of the tick's flushPendingQueues.
tickThresholdZero(queueSize) == 0

tickThresholdWholeQueue(queueSize) == queueSize

tickThreshold(queueSize) == queueSize \div TickDivisor

\* The first argument of the final flushPendingQueues, after the loop.
drainKeepsTickThreshold == opts.queueSize \div TickDivisor

drainMinQueueSizeToFlush == 0

\* case query := <-p.queryQueue
Receive ==
    /\ ~panicked
    /\ loop.pc = "select"
    /\ queryQueue # <<>> \/ closed
    /\ IF queryQueue = <<>>
       THEN \* query == nil: stop, then the final flushPendingQueues(0, ...)
            /\ loop' = [loop EXCEPT !.stop = TRUE, !.min = drainMinQueueSizeToFlush,
                            !.todo = DOMAIN pendingQuery,
                            !.pc = AfterRange(DOMAIN pendingQuery, TRUE)]
            /\ UNCHANGED <<queryQueue, pendingQuery, metrics, wg>>
       ELSE LET query == Head(queryQueue)
                t == getTenant(query)
            IN  /\ queryQueue' = Tail(queryQueue)
                /\ IF t \notin DOMAIN pendingQuery
                   THEN /\ metrics' = [metrics EXCEPT !["noTenantFound"] = @ + 1,
                                                      !["droppedWrites"] = @ + 1]
                        /\ UNCHANGED <<pendingQuery, loop, wg>>
                   ELSE LET r == Add(pendingQuery[t], query, opts.queueSize)
                        IN  /\ pendingQuery' = [pendingQuery EXCEPT ![t] = r.queries]
                            /\ IF r.nil
                               THEN UNCHANGED <<loop, metrics, wg>>
                               ELSE /\ metrics' = Inc("batchWrite", Len(r.dataBatch))
                                    /\ wg' = wg + 1
                                    /\ loop' = [loop EXCEPT !.pc = "go", !.t = t,
                                                    !.dataBatch = r.dataBatch]
    /\ UNCHANGED <<wq, returns, opts, env, budget, nextId, writers, closed, workers, closer,
                   panicked, received, warns>>

\* p.workerPool.Go(func() { defer wg.Done(); p.writeBatch(...) })
LoopGo ==
    /\ ~panicked
    /\ loop.pc = "go"
    /\ IdleSlots # {}
    /\ workers' = [workers EXCEPT ![FreeSlot] = NewJob("batch", loop.t, loop.dataBatch)]
    /\ loop' = [loop EXCEPT !.pc = "select", !.t = "", !.dataBatch = <<>>]
    /\ UNCHANGED <<wq, returns, opts, env, budget, nextId, writers, queryQueue, closed,
                   pendingQuery, wg, closer, panicked, metrics, received, warns>>

\* case <-ticker.C
Tick ==
    /\ ~panicked
    /\ env.ticker
    /\ loop.pc = "select"
    /\ loop' = [loop EXCEPT !.min = tickThreshold(opts.queueSize),
                    !.todo = DOMAIN pendingQuery,
                    !.pc = AfterRange(DOMAIN pendingQuery, FALSE)]
        /\ UNCHANGED <<wq, returns, opts, env, budget, nextId, writers, queryQueue, closed,
                   pendingQuery, wg, workers, closer, panicked, metrics,
                   received, warns>>

\* flushPendingQueues: the range takes the next queue, in any order, and
\* reads queue.Len() == 0.
FlushNext(t) ==
    /\ ~panicked
    /\ loop.pc = "flush"
    /\ t \in loop.todo
    /\ loop' = IF Len(pendingQuery[t]) = 0
               THEN [loop EXCEPT !.todo = @ \ {t},
                                 !.pc = AfterRange(loop.todo \ {t}, loop.stop)]
               ELSE [loop EXCEPT !.todo = @ \ {t}, !.t = t, !.pc = "flushMin"]
    /\ UNCHANGED <<wq, returns, opts, env, budget, nextId, writers, queryQueue, closed,
                   pendingQuery, wg, workers, closer, panicked, metrics,
                   received, warns>>

\* queue.Len() < minQueueSizeToFlush, else wg.Add(1)
FlushMin ==
    /\ ~panicked
    /\ loop.pc = "flushMin"
    /\ IF Len(pendingQuery[loop.t]) < loop.min
       THEN /\ loop' = [loop EXCEPT !.t = "",
                                    !.pc = AfterRange(loop.todo, loop.stop)]
            /\ warns' = IF warns < MaxWarns THEN warns + 1 ELSE warns
            /\ UNCHANGED wg
       ELSE /\ loop' = LoopAt("flushGo")
            /\ wg' = wg + 1
            /\ UNCHANGED warns
    /\ UNCHANGED <<wq, returns, opts, env, budget, nextId, writers, queryQueue, closed,
                   pendingQuery, workers, closer, panicked, metrics, received>>

\* p.workerPool.Go(func() { q.Flush(ctx, p); wg.Done() })
FlushGo ==
    /\ ~panicked
    /\ loop.pc = "flushGo"
    /\ IdleSlots # {}
    /\ workers' = [workers EXCEPT ![FreeSlot] = NewJob("flush", loop.t, <<>>)]
    /\ loop' = [loop EXCEPT !.t = "", !.pc = AfterRange(loop.todo, loop.stop)]
    /\ UNCHANGED <<wq, returns, opts, env, budget, nextId, writers, queryQueue, closed,
                   pendingQuery, wg, closer, panicked, metrics, received, warns>>

\* wg.Wait() returns when the counter is zero.
waitIgnoresCounter(n) == TRUE

waitReturns(n) == n = 0

LoopWait ==
    /\ ~panicked
    /\ loop.pc = "wait"
    /\ waitReturns(wg)
    /\ loop' = LoopAt("signal")
    /\ UNCHANGED <<wq, returns, opts, env, budget, nextId, writers, queryQueue, closed,
                   pendingQuery, wg, workers, closer, panicked, metrics,
                   received, warns>>

(***************************************************************************)
(* The jobs the workers run: WriteQueue.Flush, writeBatch, write.          *)
(***************************************************************************)
\* Flush: data := wq.pop(); an empty pop returns, otherwise tickWrite.Inc.
JobPopCountsBatches(s) ==
    /\ ~panicked
    /\ workers[s].pc = "pop"
    /\ LET t == workers[s].t
           r == popUnderLock(pendingQuery[t])
       IN  /\ pendingQuery' = [pendingQuery EXCEPT ![t] = r.queries]
           /\ IF Len(r.res) = 0
              THEN /\ workers' = [workers EXCEPT ![s].pc = "ret"]
                   /\ UNCHANGED metrics
              ELSE /\ workers' = [workers EXCEPT ![s].pc = "writeBatch",
                                                 ![s].queries = r.res]
                   /\ metrics' = Inc("tickWrite", 1)
    /\ UNCHANGED <<wq, returns, opts, env, budget, nextId, writers, queryQueue, closed, loop,
                   wg, closer, panicked, received, warns>>

JobPop(s) ==
    /\ ~panicked
    /\ workers[s].pc = "pop"
    /\ LET t == workers[s].t
           r == popUnderLock(pendingQuery[t])
       IN  /\ pendingQuery' = [pendingQuery EXCEPT ![t] = r.queries]
           /\ IF Len(r.res) = 0
              THEN /\ workers' = [workers EXCEPT ![s].pc = "ret"]
                   /\ UNCHANGED metrics
              ELSE /\ workers' = [workers EXCEPT ![s].pc = "writeBatch",
                                                 ![s].queries = r.res]
                   /\ metrics' = Inc("tickWrite", Len(r.res))
    /\ UNCHANGED <<wq, returns, opts, env, budget, nextId, writers, queryQueue, closed, loop,
                   wg, closer, panicked, received, warns>>

\* The queries of a batch that getTenant still gives to the batch's tenant.
correctWqKeepsAll(tenant, queries) == queries

correctWqLastRule(tenant, queries) ==
    SelectSeq(queries, LAMBDA query : getTenantLastRule(query) = tenant)

correctWq(tenant, queries) ==
    SelectSeq(queries, LAMBDA query : getTenant(query) = tenant)

\* writeBatch up to the loop of write: the tenant double check, the empty
\* return, convertAndEncodeWriteQuery (encoded tells whether it succeeds),
\* and the request write builds with its headers.
JobWriteBatch(s, encoded) ==
    /\ ~panicked
    /\ workers[s].pc = "writeBatch"
    /\ LET job == workers[s]
           kept == correctWq(job.t, job.queries)
           wrong == Len(job.queries) - Len(kept)
       IN  IF Len(kept) = 0
           THEN /\ workers' = [workers EXCEPT ![s].queries = kept,
                                              ![s].pc = "ret"]
                /\ metrics' = Inc("wrongTenant", wrong)
           ELSE IF ~encoded
           THEN /\ workers' = [workers EXCEPT ![s].queries = kept,
                                              ![s].err = "encode",
                                              ![s].errInc = @ + 1,
                                              ![s].pc = "ret"]
                /\ metrics' = [metrics EXCEPT !["wrongTenant"] = @ + wrong,
                                              !["batchWriteErr"] = @ + 1]
           ELSE /\ \E header \in requestHeaders(opts.endpoint, job.t) :
                    workers' = [workers EXCEPT ![s].queries = kept,
                                               ![s].i = opts.retries,
                                               ![s].header = header,
                                               ![s].pc = "attempt"]
                /\ metrics' = Inc("wrongTenant", wrong)
    /\ UNCHANGED <<wq, returns, opts, env, budget, nextId, writers, queryQueue, closed,
                   pendingQuery, loop, wg, closer, panicked, received, warns>>

\* The request body.  write builds the request once, before its loop, over
\* bytes.NewReader(encoded) (the payload stands as one unit for each query
\* of the batch) and hands the same request to every p.client.Do: read is
\* how far the reader has been read, and an attempt can send only what the
\* reader still yields.
Body(job) == SubSeq(job.queries, job.read + 1, Len(job.queries))

\* p.client.Do(req): with the whole body to send the endpoint's answer comes
\* back; once the reader has been read the body is shorter than the
\* Content-Length of the request, and Do returns an error.
Do(job, resp) == IF Body(job) = job.queries THEN resp ELSE TransportError

\* How far the reader may have been read when Do returns: an answer means
\* the request went out whole; a transport error leaves it anywhere (the
\* connection was refused, or it broke with the request under way).
ReadAfter(job, answer) ==
    IF answer = TransportError /\ job.read = 0
    THEN 0..Len(job.queries)
    ELSE {Len(job.queries)}

\* One turn of the loop of write: doRequest, then either the break or the
\* sleep and i--; when the loop ends, write returns to writeBatch, which
\* counts a remaining error in batchWriteErr.
JobAttemptCountsAttempts(s, resp) ==
    /\ ~panicked
    /\ workers[s].pc = "attempt"
    /\ LET job == workers[s]
           answer == Do(job, resp)
           r == doRequest(answer)
           seen == Append(job.resps, answer)
       IN  \E n \in ReadAfter(job, answer) :
           /\ received' = IF r.err = "nil"
                          THEN received (+) SetToBag({[tenant |-> TenantHeader(job.header),
                                                      queries |-> Body(job)]})
                          ELSE received
           /\ IF attemptEnds(r)
              THEN /\ workers' = [workers EXCEPT ![s].resps = seen,
                                                 ![s].read = n,
                                                 ![s].err = "nil",
                                                 ![s].pc = "ret"]
                   /\ UNCHANGED metrics
              ELSE IF loopContinues(job.i - 1)
              THEN /\ workers' = [workers EXCEPT ![s].resps = seen,
                                                 ![s].read = n,
                                                 ![s].err = r.err,
                                                 ![s].i = @ - 1]
                   /\ metrics' = Inc("batchWriteErr", 1)
              ELSE /\ workers' = [workers EXCEPT ![s].resps = seen,
                                                 ![s].read = n,
                                                 ![s].err = r.err,
                                                 ![s].i = @ - 1,
                                                 ![s].errInc = @ + 1,
                                                 ![s].pc = "ret"]
                   /\ metrics' = Inc("batchWriteErr", 1)
    /\ UNCHANGED <<wq, returns, opts, env, budget, nextId, writers, queryQueue, closed,
                   pendingQuery, loop, wg, closer, panicked, warns>>

JobAttempt(s, resp) ==
    /\ ~panicked
    /\ workers[s].pc = "attempt"
    /\ LET job == workers[s]
           answer == Do(job, resp)
           r == doRequest(answer)
           seen == Append(job.resps, answer)
       IN  \E n \in ReadAfter(job, answer) :
           /\ received' = IF r.err = "nil"
                          THEN received (+) SetToBag({[tenant |-> TenantHeader(job.header),
                                                      queries |-> Body(job)]})
                          ELSE received
           /\ IF attemptEnds(r)
              THEN /\ workers' = [workers EXCEPT ![s].resps = seen,
                                                 ![s].read = n,
                                                 ![s].err = "nil",
                                                 ![s].pc = "ret"]
                   /\ UNCHANGED metrics
              ELSE IF loopContinues(job.i - 1)
              THEN /\ workers' = [workers EXCEPT ![s].resps = seen,
                                                 ![s].read = n,
                                                 ![s].err = r.err,
                                                 ![s].i = @ - 1]
                   /\ UNCHANGED metrics
              ELSE /\ workers' = [workers EXCEPT ![s].resps = seen,
                                                 ![s].read = n,
                                                 ![s].err = r.err,
                                                 ![s].i = @ - 1,
                                                 ![s].errInc = @ + 1,
                                                 ![s].pc = "ret"]
                   /\ metrics' = Inc("batchWriteErr", 1)
    /\ UNCHANGED <<wq, returns, opts, env, budget, nextId, writers, queryQueue, closed,
                   pendingQuery, loop, wg, closer, panicked, warns>>

\* The job function returns: wg.Done(), and the worker is free again.
JobReturnWithoutDone(s) ==
    /\ ~panicked
    /\ workers[s].pc = "ret"
    /\ workers' = [workers EXCEPT ![s] = Idle]
    /\ UNCHANGED <<wq, returns, opts, env, budget, nextId, writers, queryQueue,
                   closed, pendingQuery, loop, wg, closer, panicked, metrics,
                   received, warns>>

JobReturn(s) ==
    /\ ~panicked
    /\ workers[s].pc = "ret"
    /\ wg' = wg - 1
    /\ workers' = [workers EXCEPT ![s] = Idle]
    /\ UNCHANGED <<wq, returns, opts, env, budget, nextId, writers, queryQueue, closed,
                   pendingQuery, loop, closer, panicked, metrics, received, warns>>

(***************************************************************************)
(* Close.                                                                  *)
(***************************************************************************)
\* close(p.queryQueue)
CloseChannel ==
    /\ ~panicked
    /\ returns.NewStorage = "nil"
    /\ closer = "idle"
    /\ closed' = TRUE
    /\ closer' = "cancel"
    /\ UNCHANGED <<wq, returns, opts, env, budget, nextId, writers, queryQueue,
                   pendingQuery, loop, wg, workers, panicked, metrics,
                   received, warns>>

\* p.cancel(): cancels the context NewStorage made, which startAsync drops,
\* so no goroutine holds it.
CloseCancel ==
    /\ ~panicked
    /\ closer = "cancel"
    /\ closer' = "recv"
    /\ UNCHANGED <<wq, returns, opts, env, budget, nextId, writers, queryQueue, closed,
                   pendingQuery, loop, wg, workers, panicked, metrics,
                   received, warns>>

\* p.writeLoopDone <- struct{}{} meets <-p.writeLoopDone: writeLoop returns,
\* and Close closes the idle connections and returns.
CloseReturn ==
    /\ ~panicked
    /\ closer = "recv"
    /\ loop.pc = "signal"
    /\ closer' = "returned"
    /\ loop' = LoopAt("exited")
    /\ UNCHANGED <<wq, returns, opts, env, budget, nextId, writers, queryQueue, closed,
                   pendingQuery, wg, workers, panicked, metrics, received, warns>>

(***************************************************************************)
(* Configurations and the specifications.                                  *)
(***************************************************************************)
\* opts.tickDuration is a *time.Duration: nil, or a duration of d ticks of
\* the clock (zero and negative durations exist).
NilDuration == [nil |-> TRUE, d |-> 0]

Duration(d) == [nil |-> FALSE, d |-> d]

TenantRules == <<[Filter |-> "a", Tenant |-> "A"], [Filter |-> "b", Tenant |-> "B"]>>

\* opts.endpoints[0] without a token and without other headers.
PlainEndpoint ==
    [apiToken |-> "", tenantHeader |-> "X-Scope-OrgID", otherHeaders |-> NoHeaders]

Options(queueSizes, poolSizes, retries, rules) ==
    [queueSize : queueSizes, poolSize : poolSizes, retries : retries,
     tickDuration : {Duration(1)}, endpoints : {1}, endpoint : {PlainEndpoint},
     tenantRules : rules, tenantDefault : {"D"}]

\* Tags of the queries the producers write: matching the second rule only,
\* both rules, or none.
TagSets == {{"b"}, {"a", "b"}, {"c"}}

Responses == {TransportError, 200, 400, StatusConflict, StatusTooManyRequests, 500}

\* What surrounds the storage in one run: how many producers call Write at
\* once, what they pass, whether the ticker fires during the run, what the
\* endpoint answers and whether the encoder succeeds.
Environment(producers, kinds, tagSets, ticker, responses, encoded) ==
    [producers : producers, kinds : {kinds}, tagSets : {tagSets},
     ticker : ticker, responses : {responses}, encoded : {encoded}]

ZeroMetrics ==
    [c \in {"droppedWrites", "dupWrites", "ingestorWrites", "enqueued",
            "enqueueErr", "batchWrite", "batchWriteErr", "tickWrite",
            "noTenantFound", "wrongTenant"} |-> 0]

\* The state NewStorage leaves: empty queues and channel, the loop at its
\* select, every worker free.
StorageInit(optionSet, envSet, writes) ==
    /\ opts \in optionSet
    /\ env \in envSet
    /\ budget = writes
    /\ nextId = 1
    /\ writers = {}
    /\ queryQueue = <<>>
    /\ closed = FALSE
    /\ pendingQuery = [t \in FixedTenants(opts) |-> NewWriteQueue]
    /\ loop = [pc |-> "select", stop |-> FALSE, t |-> "", dataBatch |-> <<>>,
               min |-> 0, todo |-> {}]
    /\ wg = 0
    /\ workers = NewWorkerPool(opts.poolSize)
    /\ closer = "idle"
    /\ panicked = FALSE
    /\ metrics = ZeroMetrics
    /\ received = EmptyBag
    /\ warns = 0
    /\ returns = [NewStorage |-> "nil", Write |-> <<>>]

InitWith(optionSet, envSet, writes) ==
    /\ StorageInit(optionSet, envSet, writes)
    /\ wq = NoQueueCalls

\* One tenant, a healthy endpoint: batching, overflow, tick and drain.
Init ==
    InitWith(Options({1, 2}, {1, 2}, {0}, {<<>>}),
             Environment({1, 2}, {"plain"}, {{"c"}}, BOOLEAN, {200}, {TRUE}),
             MaxWrites)

Next ==
    \/ \E kind \in env.kinds, tags \in env.tagSets, copyOk \in BOOLEAN :
          Write(kind, tags, copyOk)
    \/ \E w \in writers : WriteReturn(w)
    \/ Receive
    \/ LoopGo
    \/ Tick
    \/ \E t \in DOMAIN pendingQuery : FlushNext(t)
    \/ FlushMin
    \/ FlushGo
    \/ LoopWait
    \/ \E s \in DOMAIN workers : JobPop(s)
    \/ \E s \in DOMAIN workers, encoded \in env.encoded : JobWriteBatch(s, encoded)
    \/ \E s \in DOMAIN workers, resp \in env.responses : JobAttempt(s, resp)
    \/ \E s \in DOMAIN workers : JobReturn(s)
    \/ CloseChannel
    \/ CloseCancel
    \/ CloseReturn

Spec == Init /\ [][Next]_vars

\* The retry loop of write against an endpoint that may answer anything.
InitRetry ==
    InitWith(Options({1}, {1}, 0..MaxRetries, {<<>>}),
             Environment({1}, {"plain"}, {{"c"}}, {TRUE}, Responses, {TRUE}),
             2)

SpecRetry == InitRetry /\ [][Next]_vars

\* A queue size whose tick threshold is zero and one whose threshold is two.
InitTick ==
    InitWith(Options({1, 20}, {1, 2}, {0}, {<<>>}),
             Environment({1}, {"plain"}, {{"c"}}, {TRUE}, {200}, {TRUE}),
             MaxWrites)

SpecTick == InitTick /\ [][Next]_vars

\* Two tenant rules and a default tenant, queues of two.
InitRoute ==
    InitWith(Options({2}, {1}, {0}, {TenantRules}),
             Environment({1}, {"plain"}, TagSets, {TRUE}, {200}, {TRUE}),
             MaxWrites)

SpecRoute == InitRoute /\ [][Next]_vars

\* Producers that reuse the query objects they have written, and an encoder
\* that may fail.
InitReuse ==
    InitWith(Options({1, 2}, {1}, {0}, {TenantRules}),
             Environment({1}, {"plain"}, TagSets, {TRUE}, {200}, BOOLEAN),
             2)

NextReuse ==
    \/ Next
    \/ \E id \in 1..(nextId - 1), tags \in env.tagSets : ResetWriteQuery(id, tags)

SpecReuse == InitReuse /\ [][NextReuse]_vars

\* The m3msg ingester: every query has FromIngestor set, and the producer
\* resets the objects it has written for the next time series.
InitIngest ==
    InitWith(Options({1}, {1}, {0}, {TenantRules}),
             Environment({1}, {"ingestor"}, {{"a", "b"}, {"c"}}, {TRUE}, {200},
                         BOOLEAN),
             2)

SpecIngest == InitIngest /\ [][NextReuse]_vars

\* Overflowing and flushed batches towards an endpoint and an encoder that
\* may fail.
InitCount ==
    InitWith(Options({1, 2}, {1}, {0}, {<<>>}),
             Environment({1}, {"plain"}, {{"c"}}, {TRUE}, {200, 500}, BOOLEAN),
             MaxWrites)

SpecCount == InitCount /\ [][Next]_vars

\* Endpoints with and without a token, whose otherHeaders name nothing, the
\* tenant header in another spelling, Authorization, or two headers.
OtherHeaderSets ==
    {NoHeaders,
     "x-scope-orgid" :> <<"other">>,
     "Authorization" :> <<"Bearer">>,
     ("X-Other" :> <<"x">>) @@ ("x-scope-orgid" :> <<"other">>)}

Endpoints ==
    [apiToken : {"", "secret"}, tenantHeader : {"X-Scope-OrgID"},
     otherHeaders : OtherHeaderSets]

InitHeaders ==
    InitWith({[o EXCEPT !.endpoint = e] :
                 o \in Options({1}, {1}, {1}, {TenantRules}), e \in Endpoints},
             Environment({1}, {"plain"}, {{"a", "b"}, {"c"}}, {TRUE},
                         {TransportError, 200}, {TRUE}),
             2)

SpecHeaders == InitHeaders /\ [][Next]_vars

\* NewStorage called with valid and invalid options.
StartOptions ==
    [queueSize : {0, 1}, poolSize : {0, 1}, retries : {-1, 0},
     tickDuration : {NilDuration, Duration(-1), Duration(0), Duration(1)},
     endpoints : {0, 1}, endpoint : {PlainEndpoint}, tenantRules : {<<>>},
     tenantDefault : {"D"}]

InitStart ==
    /\ opts \in StartOptions
    /\ env \in Environment({1}, {"plain"}, {{"c"}}, {TRUE}, {200}, {TRUE})
    /\ budget = 2
    /\ nextId = 1
    /\ writers = {}
    /\ queryQueue = <<>>
    /\ closed = FALSE
    /\ pendingQuery = <<>>
    /\ loop = [pc |-> "none", stop |-> FALSE, t |-> "", dataBatch |-> <<>>,
               min |-> 0, todo |-> {}]
    /\ wg = 0
    /\ workers = <<>>
    /\ closer = "idle"
    /\ panicked = FALSE
    /\ metrics = ZeroMetrics
    /\ received = EmptyBag
    /\ warns = 0
    /\ returns = [NewStorage |-> "none", Write |-> <<>>]
    /\ wq = NoQueueCalls

NextStart ==
    \/ NewStorage
    \/ LoopInit
    \/ Next

SpecStart == InitStart /\ [][NextStart]_vars

\* Producers passing every kind of query, an encoder and an endpoint that
\* may fail.
InitWrite ==
    InitWith(Options({1}, {1}, {1}, {<<>>}),
             Environment({1}, {"nil", "dup", "ingestor", "plain"}, {{"c"}},
                         {TRUE}, {200, 400}, BOOLEAN),
             MaxWrites)

SpecWrite == InitWrite /\ [][Next]_vars

\* The goroutines under the scheduler.  The writeLoop goroutine and every
\* worker that can take a step eventually takes one; a select with a ready
\* channel case does not choose the ticker for ever; a Write that has sent
\* returns; a Close that has started goes on.  HTTP attempts return (each
\* JobAttempt is a whole attempt).  Nothing makes a producer call Write or
\* anybody call Close.
LoopStep ==
    \/ Receive
    \/ LoopGo
    \/ Tick
    \/ \E t \in DOMAIN pendingQuery : FlushNext(t)
    \/ FlushMin
    \/ FlushGo
    \/ LoopWait

WorkerStep(s) ==
    /\ s \in DOMAIN workers
    /\ \/ JobPop(s)
       \/ \E encoded \in env.encoded : JobWriteBatch(s, encoded)
       \/ \E resp \in env.responses : JobAttempt(s, resp)
       \/ JobReturn(s)

Fairness ==
    /\ WF_vars(LoopStep)
    /\ SF_vars(Receive)
    /\ \A s \in 1..MaxPool : WF_vars(WorkerStep(s))
    /\ WF_vars(\E w \in writers : WriteReturn(w))
    /\ WF_vars(CloseCancel)
    /\ WF_vars(CloseReturn)

\* Queue sizes with tick threshold 0, 1 and 2, an endpoint that may fail.
InitLive ==
    InitWith(Options({1, 10, 20}, 1..MaxPool, {0}, {<<>>}),
             Environment({1}, {"plain"}, {{"c"}}, {TRUE}, {200, 500}, {TRUE}),
             2)

SpecLive == InitLive /\ [][Next]_vars /\ Fairness

\* Goroutines calling Add, pop and Len on one WriteQueue concurrently.
InitQueue ==
    /\ StorageInit(Options({1}, {1}, {0}, {<<>>}),
                   Environment({1}, {"plain"}, {{"c"}}, {FALSE}, {200}, {TRUE}), 0)
    /\ wq \in [capacity : {1, 2}, queries : {<<>>}, writer : {0}, readers : {{}},
               calls : {[g \in 1..NumGoroutines |-> IdleCall]},
               budget : {MaxCalls}, nextQuery : {1},
               out : {[q \in 1..MaxCalls |-> 0]}]

NextQueue ==
    \/ \E g \in DOMAIN wq.calls, op \in {"Add", "pop", "Len"} : QueueCall(g, op)
    \/ \E g \in DOMAIN wq.calls : QueueLock(g)
    \/ \E g \in DOMAIN wq.calls : QueueAddBody(g)
    \/ \E g \in DOMAIN wq.calls : QueueLenBody(g)
    \/ \E g \in DOMAIN wq.calls : QueuePopRead(g)
    \/ \E g \in DOMAIN wq.calls : QueuePopReset(g)
    \/ \E g \in DOMAIN wq.calls : QueueUnlock(g)

SpecQueue == InitQueue /\ [][NextQueue]_vars

(***************************************************************************)
(* What the endpoint has received, and what Write has accepted.            *)
(***************************************************************************)
RECURSIVE SumOver(_, _)
SumOver(S, f) ==
    IF S = {} THEN 0
    ELSE LET x == CHOOSE y \in S : TRUE
         IN  f[x] + SumOver(S \ {x}, f)

\* How many times query id was in a request the endpoint accepted.
ReceivedCount(id) ==
    LET B == BagToSet(received)
    IN  SumOver(B, [r \in B |->
            received[r] * Cardinality({k \in DOMAIN r.queries : r.queries[k].id = id})])

TotalReceived ==
    LET B == BagToSet(received)
    IN  SumOver(B, [r \in B |-> received[r] * Len(r.queries)])

\* The sizes of the received batches, as a bag.
ReceivedSizes ==
    LET B == BagToSet(received)
        sizes == {Len(r.queries) : r \in B}
    IN  [n \in sizes |-> SumOver({r \in B : Len(r.queries) = n}, received)]

\* Queries Write put on the channel (each such Write has returned once
\* writers is empty).
Accepted == 1..(nextId - 1)

\* Close has returned after every Write returned, and nothing failed on the
\* way out: the endpoint answers 2xx and the encoder succeeds.
CleanShutdown ==
    /\ closer = "returned"
    /\ writers = {}
    /\ ~panicked
    /\ env.responses = {200}
    /\ env.encoded = {TRUE}

(***************************************************************************)
(* C1: after N accepted queries and Close, the endpoint has exactly those  *)
(* N queries minus the NoTenant and WrongTenant drops, which the           *)
(* no_tenant_found and wrong_tenant counters count.                        *)
(***************************************************************************)
C1_NothingLostOnClose ==
    CleanShutdown =>
        /\ \A id \in Accepted : ReceivedCount(id) <= 1
        /\ TotalReceived =
              Cardinality(Accepted) - (metrics["noTenantFound"] + metrics["wrongTenant"])

(***************************************************************************)
(* C2: Close returns only after every job submitted to the worker pool has *)
(* finished: once Close has returned no job is pending at Go or running.   *)
(***************************************************************************)
C2_CloseAfterAllJobs ==
    closer = "returned" =>
        /\ \A s \in DOMAIN workers : workers[s] = Idle
        /\ loop.pc \notin {"go", "flushGo"}
        /\ wg = 0

C2_Witness ==
    /\ closer = "returned"
    /\ metrics["batchWrite"] > 0
    /\ metrics["tickWrite"] > 0
    /\ TotalReceived >= 2

(***************************************************************************)
(* C3: every per-tenant queue holds between 0 and queueSize queries in     *)
(* every reachable state.                                                  *)
(***************************************************************************)
C3_LenWithinCapacity ==
    \A t \in DOMAIN pendingQuery :
        /\ 0 <= Len(pendingQuery[t])
        /\ Len(pendingQuery[t]) <= opts.queueSize

\* A full queue of two while a Flush of the same queue is about to pop it.
C3_Witness ==
    \E t \in DOMAIN pendingQuery, s \in DOMAIN workers :
        /\ opts.queueSize = 2
        /\ Len(pendingQuery[t]) = opts.queueSize
        /\ workers[s].pc = "pop"
        /\ workers[s].t = t

(***************************************************************************)
(* C8: one tenant, queueSize c, N queries written before any tick, then    *)
(* Close: the endpoint receives N queries as full batches of c plus one    *)
(* tail batch of the rest, and dropped_writes stays 0.                     *)
(***************************************************************************)
ExpectedSizes(n, c) ==
    IF n % c = 0
    THEN (IF n = 0 THEN EmptyBag ELSE [k \in {c} |-> n \div c])
    ELSE IF n < c THEN [k \in {n % c} |-> 1]
    ELSE [k \in {c, n % c} |-> IF k = c THEN n \div c ELSE 1]

C8_FullBatchesAndTail ==
    (CleanShutdown /\ ~env.ticker /\ Cardinality(DOMAIN pendingQuery) = 1) =>
        /\ TotalReceived = Cardinality(Accepted)
        /\ ReceivedSizes = ExpectedSizes(Cardinality(Accepted), opts.queueSize)
        /\ metrics["droppedWrites"] = 0

(***************************************************************************)
(* The attempts of the jobs.                                               *)
(***************************************************************************)
Jobs == {workers[s] : s \in DOMAIN workers}

\* writeBatch has returned in this job after at least one HTTP attempt.
Returned(job) == job.pc = "ret" /\ job.resps # <<>>

Last(seq) == seq[Len(seq)]

Is5xx(resp) == resp >= 500 /\ resp < 600

\* A 4xx the spec calls non-retryable: not 429, and not the benign 409.
IsClientError(resp) ==
    /\ resp >= 400
    /\ resp < 500
    /\ resp # StatusTooManyRequests
    /\ resp # StatusConflict

(***************************************************************************)
(* C5: when every attempt of a batch is answered 5xx, write makes exactly  *)
(* retries + 1 attempts and returns an error.  The status of an attempt is *)
(* the one doRequest returns: the endpoint's, or 503 for a request that    *)
(* failed.                                                                 *)
(***************************************************************************)
C5_RetriesPlusOneAttempts ==
    \A job \in Jobs :
        /\ Len(job.resps) <= opts.retries + 1
        /\ (Returned(job)
              /\ \A k \in DOMAIN job.resps : Is5xx(doRequest(job.resps[k]).status)) =>
              /\ Len(job.resps) = opts.retries + 1
              /\ job.err # "nil"

\* retries = 2: the endpoint answered 500, and the two attempts after it
\* failed with doRequest's 503.
C5_Witness ==
    \E job \in Jobs :
        /\ Returned(job)
        /\ opts.retries = 2
        /\ job.resps = <<500, TransportError, TransportError>>
        /\ job.err = "connect"

C7_ClientErrorNotRetried ==
    \A job \in Jobs :
        /\ \A k \in DOMAIN job.resps :
              IsClientError(job.resps[k]) => k = Len(job.resps)
        /\ (job.resps # <<>> /\ IsClientError(Last(job.resps))) =>
              /\ job.pc = "ret"
              /\ job.err = "invalidParams"

(***************************************************************************)
(* C9: a tick flushes with threshold floor(queueSize / 10): a queue below  *)
(* the threshold keeps its contents and gets no Flush job, a queue at or   *)
(* above it is handed to a worker for Flush; the final drain uses          *)
(* threshold 0.  While fewer queries than the threshold were written,      *)
(* ticks issue no POST, and Close then delivers them in one POST.          *)
(***************************************************************************)
ThresholdNow == IF loop.stop THEN 0 ELSE opts.queueSize \div 10

C9_FlushDecision ==
    (loop.pc = "flushMin" /\ loop' # loop) =>
        IF Len(pendingQuery[loop.t]) < ThresholdNow
        THEN /\ loop'.pc # "flushGo"
             /\ wg' = wg
             /\ workers' = workers
             /\ pendingQuery' = pendingQuery
        ELSE /\ loop'.pc = "flushGo"
             /\ loop'.t = loop.t
             /\ wg' = wg + 1

C9_FlushScheduled ==
    (loop.pc = "flushGo" /\ loop' # loop) =>
        \E s \in DOMAIN workers :
            /\ workers[s] = Idle
            /\ workers'[s].kind = "flush"
            /\ workers'[s].pc = "pop"
            /\ workers'[s].t = loop.t

C9_BelowThreshold ==
    /\ (~loop.stop /\ Cardinality(Accepted) < opts.queueSize \div 10) =>
          /\ received = EmptyBag
          /\ \A job \in Jobs : job = Idle
    /\ (CleanShutdown /\ Cardinality(Accepted) > 0
            /\ Cardinality(Accepted) < opts.queueSize \div 10) =>
          /\ BagCardinality(received) = 1
          /\ \A id \in Accepted : ReceivedCount(id) = 1

C9_TickThreshold ==
    /\ []C9_BelowThreshold
    /\ [][C9_FlushDecision /\ C9_FlushScheduled]_vars

\* One query under queueSize 20: two ticks left it alone, Close delivered it.
C9_Witness ==
    /\ opts.queueSize = 20
    /\ warns = 2
    /\ closer = "returned"
    /\ Cardinality(Accepted) = 1
    /\ BagCardinality(received) = 1
    /\ ReceivedCount(1) = 1

(***************************************************************************)
(* C10: a query goes to the tenant of the first rule, in declaration       *)
(* order, whose matcher accepts its tags, or to tenantDefault; every batch *)
(* sent for tenant T holds only queries that classify to T.                *)
(***************************************************************************)
RuleMatches(tags) ==
    {k \in DOMAIN opts.tenantRules : MatchTags(opts.tenantRules[k].Filter, tags)}

ExpectedTenant(tags) ==
    IF RuleMatches(tags) = {} THEN opts.tenantDefault
    ELSE opts.tenantRules[CHOOSE k \in RuleMatches(tags) :
                              \A j \in RuleMatches(tags) : k <= j].Tenant

AllClassifyTo(t, queries) ==
    \A k \in DOMAIN queries : ExpectedTenant(queries[k].tags) = t

C10_RoutedToFirstMatch ==
    /\ \A t \in DOMAIN pendingQuery : AllClassifyTo(t, pendingQuery[t])
    /\ AllClassifyTo(loop.t, loop.dataBatch)
    /\ \A job \in Jobs : AllClassifyTo(job.t, job.queries)
    /\ \A r \in BagToSet(received) : AllClassifyTo(r.tenant, r.queries)

\* Each tenant got its own request; the one for "A" holds a query both rules
\* accept.
C10_Witness ==
    /\ \E r \in BagToSet(received) :
          r.tenant = "A" /\ \E k \in DOMAIN r.queries : r.queries[k].tags = {"a", "b"}
    /\ \E r \in BagToSet(received) :
          r.tenant = "B" /\ \E k \in DOMAIN r.queries : r.queries[k].tags = {"b"}
    /\ \E r \in BagToSet(received) :
          r.tenant = "D" /\ \E k \in DOMAIN r.queries : r.queries[k].tags = {"c"}

(***************************************************************************)
(* C4: Add, pop and Flush on one queue are linearizable: under every       *)
(* interleaving of concurrent calls no two calls return the same buffer    *)
(* contents, every appended query is in at most one returned batch, and    *)
(* the full check and the extraction happen as one atomic step.            *)
(***************************************************************************)
InCall(g) == wq.calls[g].pc \in {"body", "popRead", "popReset", "unlock"}

C4_AddPopLinearizable ==
    \* the check and the extraction of one call are not interleaved with
    \* another call's statements on the buffer
    /\ \A g, h \in DOMAIN wq.calls :
          (g # h /\ InCall(g) /\ InCall(h)) =>
              wq.calls[g].op = "Len" /\ wq.calls[h].op = "Len"
    \* no two calls hold the same returned query
    /\ \A g, h \in DOMAIN wq.calls :
          g # h => \A k \in DOMAIN wq.calls[g].res, l \in DOMAIN wq.calls[h].res :
                      wq.calls[g].res[k] # wq.calls[h].res[l]
    \* every query is in at most one returned batch
    /\ \A q \in DOMAIN wq.out : wq.out[q] <= 1
    \* and a returned query is no longer in the buffer
    /\ \A q \in DOMAIN wq.out :
          wq.out[q] = 1 => \A k \in DOMAIN wq.queries : wq.queries[k] # q

\* An Add that found the queue full has read the buffer it will return,
\* while another goroutine waits for the lock to pop the same queue.
C4_Witness ==
    \E g, h \in DOMAIN wq.calls :
        /\ wq.capacity = 1
        /\ wq.calls[g].op = "Add"
        /\ wq.calls[g].pc = "popReset"
        /\ wq.calls[g].res = <<1>>
        /\ wq.calls[h].op = "pop"
        /\ wq.calls[h].pc = "lock"

(***************************************************************************)
(* C11: writeBatch(tenant, batch) classifies every query of the batch      *)
(* again: those that classify to another tenant are removed and            *)
(* wrong_tenant grows by exactly their number; the others go on, in their  *)
(* order, under the batch tenant; when none is left writeBatch returns     *)
(* success with nothing encoded or sent.                                   *)
(***************************************************************************)
StillOf(t, queries) ==
    SelectSeq(queries, LAMBDA query : ExpectedTenant(query.tags) = t)

C11_DoubleCheck ==
    \A s \in DOMAIN workers :
        (workers[s].pc = "writeBatch" /\ workers'[s].pc # "writeBatch") =>
            LET job == workers[s]
                kept == StillOf(job.t, job.queries)
            IN  /\ workers'[s].queries = kept
                /\ workers'[s].t = job.t
                /\ metrics'["wrongTenant"] =
                      metrics["wrongTenant"] + (Len(job.queries) - Len(kept))
                /\ received' = received
                /\ kept = <<>> =>
                      /\ workers'[s].pc = "ret"
                      /\ workers'[s].err = "nil"
                      /\ workers'[s].resps = <<>>
                      /\ metrics'["batchWriteErr"] = metrics["batchWriteErr"]

C11_SentUnderBatchTenant ==
    received' # received =>
        \E s \in DOMAIN workers :
            /\ workers[s].pc = "attempt"
            /\ received' = received (+) SetToBag({[tenant |-> workers[s].t,
                                                   queries |-> workers[s].queries]})

C11_WriteBatchReclassifies == [][C11_DoubleCheck /\ C11_SentUnderBatchTenant]_vars

\* A batch of two for tenant "A" lost one query to the check and the other
\* reached the endpoint under "A".
C11_Witness ==
    /\ metrics["wrongTenant"] = 1
    /\ \E r \in BagToSet(received) : r.tenant = "A" /\ Len(r.queries) = 1
    /\ TotalReceived = 1
    /\ Cardinality(Accepted) = 2
    /\ opts.queueSize = 2

(***************************************************************************)
(* C12: under fair scheduling of the loop, the ticker and the workers,     *)
(* every query Write put on the channel eventually leaves the channel and  *)
(* the queues, and it leaves them only inside a batch handed on to         *)
(* writeBatch, or dropped with a drop counter incremented, or as the       *)
(* incoming argument of an Add that found the queue full.                  *)
(***************************************************************************)
Ids(queries) == {queries[k].id : k \in DOMAIN queries}

\* Accepted and still waiting: on the channel or in a per-tenant queue.
Pending(id) ==
    \/ id \in Ids(queryQueue)
    \/ \E t \in DOMAIN pendingQuery : id \in Ids(pendingQuery[t])

\* The step takes id out of the channel and the queues.
Leaves(id) ==
    /\ Pending(id)
    /\ id \notin Ids(queryQueue')
    /\ \A t \in DOMAIN pendingQuery : id \notin Ids(pendingQuery'[t])

\* ... inside a batch: the one Add returned, or the one a Flush job popped.
HandedOn(id) ==
    \/ id \in Ids(loop'.dataBatch)
    \/ \E s \in DOMAIN workers :
          workers'[s].pc = "writeBatch" /\ id \in Ids(workers'[s].queries)

\* ... counted by the drop counters.
CountedDrop ==
    /\ metrics'["droppedWrites"] = metrics["droppedWrites"] + 1
    /\ metrics'["noTenantFound"] = metrics["noTenantFound"] + 1

\* ... as the query the loop took from the channel for a full queue.
OverflowArgument(id) ==
    /\ loop.pc = "select"
    /\ queryQueue # <<>>
    /\ Head(queryQueue).id = id
    /\ Len(pendingQuery[ExpectedTenant(Head(queryQueue).tags)]) >= opts.queueSize

C12_LeavesHandedOrDropped ==
    \A id \in Accepted :
        Leaves(id) => (HandedOn(id) \/ CountedDrop \/ OverflowArgument(id))

\* The statement as claimed: whatever the queue size.
C12_EveryQueryLeaves ==
    /\ \A id \in 1..MaxWrites : Pending(id) ~> (~Pending(id) \/ panicked)
    /\ [][C12_LeavesHandedOrDropped]_vars

\* What holds: a tick leaves a queue shorter than floor(queueSize / 10)
\* alone, so a query is sure to leave only when that threshold is at most
\* one, or once Close has closed the channel.
C12_LeavesWhenThresholdMet ==
    /\ \A id \in 1..MaxWrites :
          (Pending(id) /\ (opts.queueSize \div 10 <= 1 \/ closed))
              ~> (~Pending(id) \/ panicked)
    /\ [][C12_LeavesHandedOrDropped]_vars

\* A tick (Close not called) gave a worker the single query of a queue of
\* size 10.
C12_Witness ==
    /\ opts.queueSize = 10
    /\ ~closed
    /\ \E s \in DOMAIN workers :
          /\ workers[s].kind = "flush"
          /\ workers[s].pc = "writeBatch"
          /\ Len(workers[s].queries) = 1
    /\ ~Pending(1)
    /\ Cardinality(Accepted) = 1

(***************************************************************************)
(* C13: once Close has run its cancel step, a batch write still in flight  *)
(* observes the cancellation and stops retrying: an attempt that ends      *)
(* after the cancel is the job's last one, whatever the endpoint answered  *)
(* and however many retries were left.                                     *)
(***************************************************************************)
CancelDone == closer \in {"recv", "returned"}

C13_CancelStopsRetries ==
    [][\A s \in DOMAIN workers :
          (CancelDone /\ workers[s].pc = "attempt"
                /\ workers'[s].resps # workers[s].resps)
              => workers'[s].pc = "ret"]_vars

(***************************************************************************)
(* C14: Write of a nil query and Write of a query with DuplicateWrite      *)
(* return success and leave the channel and every per-tenant queue as      *)
(* they were; the duplicate adds one to duplicate_writes, and neither adds *)
(* to enqueued.                                                            *)
(***************************************************************************)
\* The step is a call of Write; ThisCall is its record.
WriteCalled == Len(returns'.Write) = Len(returns.Write) + 1

ThisCall == Last(returns'.Write)

C14_NoOpStep ==
    (WriteCalled /\ ThisCall.kind \in {"nil", "dup"}) =>
        /\ ThisCall.err = "nil"
        /\ ThisCall.id = 0
        /\ queryQueue' = queryQueue
        /\ pendingQuery' = pendingQuery
        /\ writers' = writers
        /\ ~panicked'
        /\ metrics' = IF ThisCall.kind = "dup"
                      THEN [metrics EXCEPT !["dupWrites"] = @ + 1]
                      ELSE metrics

\* enqueued counts the returned calls that put a query on the channel.
C14_EnqueuedCount ==
    metrics["enqueued"] =
        Cardinality({k \in DOMAIN returns.Write :
                        returns.Write[k].id > 0 /\ returns.Write[k].err = "nil"})

C14_NilAndDuplicateAreNoOps == []C14_EnqueuedCount /\ [][C14_NoOpStep]_vars

\* A nil, a duplicate and a plain query were written, the first two after
\* Close closed the channel.
C14_Witness ==
    /\ Len(returns.Write) = 3
    /\ returns.Write[1].kind = "plain"
    /\ returns.Write[2].kind = "dup"
    /\ returns.Write[3].kind = "nil"
    /\ closed
    /\ ~panicked
    /\ metrics["dupWrites"] = 1
    /\ metrics["enqueued"] = 1

(***************************************************************************)
(* C15: Write returns success for every non-nil, non-duplicate query whose *)
(* copy succeeds, whatever happens to the query later (encode failure,     *)
(* exhausted retries, 4xx); the only error Write returns is the copy       *)
(* failure, and what it returned does not change afterwards.               *)
(***************************************************************************)
C15_Returned ==
    \A k \in DOMAIN returns.Write :
        LET call == returns.Write[k]
        IN  /\ call.err \in {"nil", "copy", "pending", "panic"}
            /\ call.err = "copy" => (call.kind = "ingestor" /\ call.id = 0)
            /\ call.id > 0 => call.err \in {"nil", "pending"}

C15_ReturnStands ==
    \A k \in DOMAIN returns.Write :
        /\ returns.Write[k].err # "pending" => returns'.Write[k] = returns.Write[k]
        /\ returns.Write[k].err = "pending" => returns'.Write[k].err \in {"pending", "nil"}

C15_AsyncErrorsNotSurfaced == []C15_Returned /\ [][C15_ReturnStands]_vars

\* The batch of query 1 failed for good (a 400, then a failed retry); the
\* Writes of queries 1 and 2 both returned success.
C15_Witness ==
    /\ Len(returns.Write) >= 2
    /\ returns.Write[1].id = 1
    /\ returns.Write[1].err = "nil"
    /\ returns.Write[2].id = 2
    /\ returns.Write[2].err = "nil"
    /\ metrics["batchWriteErr"] = 1
    /\ metrics["enqueued"] = 2
    /\ \E job \in Jobs :
          /\ Returned(job)
          /\ job.resps[1] = 400
          /\ job.err # "nil"
          /\ Ids(job.queries) = {1}

(***************************************************************************)
(* C16: NewStorage returns an error and starts no dispatch loop whenever   *)
(* poolSize < 1, queueSize < 1, retries < 0, tickDuration is unset, zero   *)
(* or negative, or there is no endpoint; it starts the pipeline only when  *)
(* all of these hold.                                                      *)
(***************************************************************************)
ValidConfig(o) ==
    /\ o.poolSize >= 1
    /\ o.queueSize >= 1
    /\ o.retries >= 0
    /\ ~o.tickDuration.nil
    /\ o.tickDuration.d > 0
    /\ o.endpoints >= 1

C16_StartupValidatesConfig ==
    returns.NewStorage # "none" =>
        /\ returns.NewStorage = "nil" <=> ValidConfig(opts)
        /\ loop.pc # "none" <=> ValidConfig(opts)

(***************************************************************************)
(* C17: the dispatch loop only moves Running -> Draining -> Done.  It      *)
(* enters Draining by dequeuing the nil of the closed channel, so with the *)
(* channel closed and empty; it never goes back; once Draining it is never *)
(* at its select again, so it takes no tick and no query; and it signals   *)
(* done once, after the WaitGroup reached zero.                            *)
(***************************************************************************)
\* Running is 1, Draining 2, Done 3.
Phase(l) ==
    IF l.pc = "exited" THEN 3 ELSE IF l.stop THEN 2 ELSE 1

IsRunning(l) == Phase(l) = 1

IsDraining(l) == Phase(l) = 2

IsDone(l) == Phase(l) = 3

C17_PhaseStep ==
    /\ Phase(loop') \in {Phase(loop), Phase(loop) + 1}
    /\ (IsRunning(loop) /\ IsDraining(loop')) =>
          /\ loop.pc = "select"
          /\ closed
          /\ queryQueue = <<>>
    /\ (IsDraining(loop) /\ IsDone(loop')) =>
          /\ loop.pc = "signal"
          /\ wg = 0
          /\ closer' = "returned"
    /\ IsDone(loop) => loop' = loop

C17_DrainingNeverSelects ==
    IsDraining(loop) =>
        /\ loop.pc \in {"flush", "flushMin", "flushGo", "wait", "signal"}
        /\ loop.min = 0

C17_LoopPhases == []C17_DrainingNeverSelects /\ [][C17_PhaseStep]_vars

\* Draining after ticks have flushed: the loop waits for a job of the final
\* drain while the ticker goes on.
C17_Witness ==
    /\ IsDraining(loop)
    /\ loop.pc = "wait"
    /\ wg >= 1
    /\ env.ticker
    /\ metrics["tickWrite"] >= 1
    /\ TotalReceived >= 1

(***************************************************************************)
(* C18: shutdown terminates.  With every HTTP attempt returning and fair   *)
(* scheduling, once Close has been called and no Write runs into the       *)
(* closed channel, the loop reaches Done and Close returns, whatever the   *)
(* channel, the queues and the workers held when it was called.            *)
(***************************************************************************)
C18_CloseTerminates ==
    (closer # "idle") ~> ((closer = "returned" /\ loop.pc = "exited") \/ panicked)

\* Close has just closed the channel: a query is still on it, another in
\* its queue, and every worker is busy.
C18_Witness ==
    /\ closer = "cancel"
    /\ queryQueue # <<>>
    /\ \E t \in DOMAIN pendingQuery : pendingQuery[t] # <<>>
    /\ \A s \in DOMAIN workers : workers[s] # Idle
    /\ ~panicked

(***************************************************************************)
(* C19: Add(q) on a queue of length >= capacity returns the buffer as it   *)
(* is (capacity queries in insertion order, q not among them), leaves the  *)
(* queue empty and does not append q; on a shorter queue it appends q at   *)
(* the tail and returns no batch.                                          *)
(***************************************************************************)
\* The step is the loop's Add of the query at the head of the channel.
AddCalled ==
    /\ loop.pc = "select"
    /\ queryQueue # <<>>
    /\ queryQueue' = Tail(queryQueue)

C19_AddStep ==
    AddCalled =>
        LET q == Head(queryQueue)
            t == ExpectedTenant(q.tags)
            before == pendingQuery[t]
        IN  IF Len(before) >= opts.queueSize
            THEN /\ loop'.dataBatch = before
                 /\ Len(loop'.dataBatch) = opts.queueSize
                 /\ q.id \notin Ids(loop'.dataBatch)
                 /\ pendingQuery'[t] = <<>>
                 /\ \A u \in DOMAIN pendingQuery : q.id \notin Ids(pendingQuery'[u])
            ELSE /\ pendingQuery'[t] = Append(before, q)
                 /\ loop'.dataBatch = <<>>
                 /\ loop'.pc = "select"
                 /\ wg' = wg

C19_AddOverflowOrAppend == [][C19_AddStep]_vars

\* An Add on a full queue of two returned both queries and kept neither
\* them nor its own.
C19_Witness ==
    /\ opts.queueSize = 2
    /\ loop.pc = "go"
    /\ Ids(loop.dataBatch) = {1, 2}
    /\ loop.dataBatch[1].id = 1
    /\ pendingQuery[loop.t] = <<>>
    /\ queryQueue = <<>>
    /\ nextId = 4

(***************************************************************************)
(* C20: the final drain flushes everything: when Close returns the channel *)
(* holds no query and every per-tenant queue is empty, however short the   *)
(* queues were against the tick threshold when Close was called.           *)
(***************************************************************************)
C20_DrainEmptiesEverything ==
    closer = "returned" =>
        /\ queryQueue = <<>>
        /\ \A t \in DOMAIN pendingQuery : Len(pendingQuery[t]) = 0

\* Queue size 20: a tick flushed two queries, later ticks left the third
\* alone, and Close returned with it delivered.
C20_Witness ==
    /\ closer = "returned"
    /\ opts.queueSize = 20
    /\ warns >= 1
    /\ Cardinality(Accepted) = 3
    /\ BagCardinality(received) = 2
    /\ TotalReceived = 3

(***************************************************************************)
(* C21: at most poolSize batch jobs (writeBatch or Flush) run at the same  *)
(* time, and while all poolSize workers are busy the writeLoop, blocked in *)
(* workerPool.Go, takes nothing from the channel and handles no tick: its  *)
(* position, the queues' order of arrival and the job it wants to submit   *)
(* stay as they are until a worker is free.                                *)
(***************************************************************************)
Busy == {s \in DOMAIN workers : workers[s].pc # "idle"}

Submitting == loop.pc \in {"go", "flushGo"}

C21_AtMostPoolSize == Cardinality(Busy) <= opts.poolSize

C21_BlockedStep ==
    Submitting /\ Cardinality(Busy) >= opts.poolSize =>
        /\ loop' = loop
        /\ Len(queryQueue') >= Len(queryQueue)
        /\ SubSeq(queryQueue', 1, Len(queryQueue)) = queryQueue
        /\ \A t \in DOMAIN pendingQuery :
              pendingQuery'[t] \in {pendingQuery[t], <<>>}

C21_PoolBoundsJobs == [](C21_AtMostPoolSize) /\ [][C21_BlockedStep]_vars

\* Two workers hold Flush jobs, the loop waits in workerPool.Go with a third,
\* and a query waits on the channel.
C21_Witness ==
    /\ opts.poolSize = 2
    /\ Cardinality(Busy) = 2
    /\ loop.pc = "flushGo"
    /\ queryQueue # <<>>

(***************************************************************************)
(* C22: for a query with FromIngestor set Write enqueues a deep copy: when *)
(* the producer, after Write has returned, overwrites the tags and         *)
(* datapoints of the original, the query the storage holds, the batches    *)
(* already delivered and the counters stay as they are, so the copy is     *)
(* classified and delivered with the content it had at Write.              *)
(***************************************************************************)
OriginalReset(k) ==
    /\ k \in DOMAIN returns.Write
    /\ returns.Write[k].kind = "ingestor"
    /\ returns.Write[k].err = "nil"
    /\ returns'.Write[k].original # returns.Write[k].original

C22_ResetStep ==
    (\E k \in DOMAIN returns.Write : OriginalReset(k)) =>
        UNCHANGED <<queryQueue, pendingQuery, loop, workers, received, metrics>>

C22_IngestorCopyIsDeep == [][C22_ResetStep]_vars

\* The producer has overwritten the original of a copied query, and the
\* copy has reached the endpoint with other tags than the original has now.
C22_Witness ==
    \E k \in DOMAIN returns.Write :
        /\ returns.Write[k].kind = "ingestor"
        /\ returns.Write[k].err = "nil"
        /\ \E r \in BagToSet(received) :
              \E j \in DOMAIN r.queries :
                  /\ r.queries[j].id = returns.Write[k].id
                  /\ r.queries[j].tags # returns.Write[k].original
                  /\ ExpectedTenant(r.queries[j].tags) = r.tenant
                  /\ ExpectedTenant(returns.Write[k].original) # r.tenant

(***************************************************************************)
(* C23: a batch is FIFO: Write numbers the queries in the order of their   *)
(* sends, the channel delivers in that order, and on the channel, in every *)
(* per-tenant queue, in every batch popped, held by a job or delivered,    *)
(* the queries stand in that order.  Between batches there is no order: a  *)
(* later batch may reach the endpoint before an earlier one.               *)
(***************************************************************************)
InSendOrder(queries) ==
    \A i, j \in DOMAIN queries : i < j => queries[i].id < queries[j].id

C23_BatchIsFifo ==
    /\ InSendOrder(queryQueue)
    /\ \A t \in DOMAIN pendingQuery : InSendOrder(pendingQuery[t])
    /\ InSendOrder(loop.dataBatch)
    /\ \A s \in DOMAIN workers : InSendOrder(workers[s].queries)
    /\ \A r \in BagToSet(received) : InSendOrder(r.queries)
    /\ \A k \in DOMAIN returns.Write :
          returns.Write[k].id > 0 =>
              \A j \in 1..(k - 1) : returns.Write[j].id < returns.Write[k].id

\* The batch of the second and third query has reached the endpoint, in
\* Write order, while the batch of the first is still on its way.
C23_Witness ==
    /\ env.producers = 1
    /\ \E r \in BagToSet(received) : Len(r.queries) = 2 /\ r.queries[1].id = 2
    /\ \E s \in DOMAIN workers :
          /\ workers[s].pc = "attempt"
          /\ workers[s].queries # <<>>
          /\ workers[s].queries[1].id = 1

(***************************************************************************)
(* C24: batch_write_err counts failed batches, not failed attempts: the    *)
(* counter moves only in the step in which a writeBatch call ends, by one  *)
(* when the call returns an error (the encoder failed, and then no request *)
(* was made, or write failed after its last attempt) and not at all when   *)
(* it returns nil.                                                         *)
(***************************************************************************)
WriteBatchEnds(s) ==
    /\ workers[s].pc \in {"writeBatch", "attempt"}
    /\ workers'[s].pc = "ret"

C24_CountStep ==
    /\ \A s \in DOMAIN workers :
          WriteBatchEnds(s) =>
              /\ metrics'["batchWriteErr"] =
                    metrics["batchWriteErr"]
                        + (IF workers'[s].err = "nil" THEN 0 ELSE 1)
              /\ workers'[s].err = "encode" => workers'[s].resps = <<>>
              /\ (workers'[s].err \notin {"nil", "encode"}) =>
                    Len(workers'[s].resps) = opts.retries + 1
    /\ metrics'["batchWriteErr"] # metrics["batchWriteErr"] =>
          \E s \in DOMAIN workers : WriteBatchEnds(s)

C24_CountsFailedBatches == [][C24_CountStep]_vars

\* Two batches have failed and nothing was delivered, the later one after
\* two failed attempts: the counter is 2, not the number of attempts.
C24_Witness ==
    /\ metrics["batchWriteErr"] = 2
    /\ TotalReceived = 0
    /\ \E s \in DOMAIN workers :
          /\ workers[s].pc = "ret"
          /\ workers[s].err # "nil"
          /\ workers[s].resps = <<400, TransportError>>
          /\ workers[s].errInc = 1

(***************************************************************************)
(* C25: every attempt of the retry loop POSTs the complete payload of the  *)
(* batch: whenever write is about to call doRequest, the body of the       *)
(* request yields the whole encoded batch, on the first attempt and on     *)
(* every retry.                                                            *)
(***************************************************************************)
C25_EveryAttemptSendsPayload ==
    \A s \in DOMAIN workers :
        workers[s].pc = "attempt" => Body(workers[s]) = workers[s].queries

Range(seq) == {seq[k] : k \in DOMAIN seq}

(***************************************************************************)
(* C26: the keys of p.pendingQuery are fixed at construction, the default  *)
(* tenant and the tenants of the configured rules, and no step of Write,   *)
(* the writeLoop, a tick, Flush, writeBatch or Close adds or removes one.  *)
(***************************************************************************)
ConfiguredTenants ==
    {opts.tenantDefault} \cup {rule.Tenant : rule \in Range(opts.tenantRules)}

C26_KeysAsConfigured == DOMAIN pendingQuery = ConfiguredTenants

C26_KeysStep == DOMAIN pendingQuery' = DOMAIN pendingQuery

C26_KeySetFixed == [](C26_KeysAsConfigured) /\ [][C26_KeysStep]_vars

\* Close has returned after ticks flushed queues of two tenants, and the
\* keys are the three configured tenants.
C26_Witness ==
    /\ closer = "returned"
    /\ DOMAIN pendingQuery = {"A", "B", "D"}
    /\ metrics["tickWrite"] >= 2
    /\ Cardinality({r.tenant : r \in BagToSet(received)}) >= 2

(***************************************************************************)
(* C27: the NoTenant drop is unreachable: every tenant classification can  *)
(* return is a key of p.pendingQuery, so no_tenant_found and               *)
(* dropped_writes are 0 in every reachable state.                          *)
(***************************************************************************)
C27_NoTenantUnreachable ==
    /\ \A tags \in env.tagSets :
          getTenant(WriteQuery(0, tags)) \in DOMAIN pendingQuery
    /\ metrics["noTenantFound"] = 0
    /\ metrics["droppedWrites"] = 0

\* Three queries, one for each rule's tenant and one for the default
\* tenant, were received by the loop and delivered; nothing was dropped.
C27_Witness ==
    /\ {r.tenant : r \in BagToSet(received)} = {"A", "B", "D"}
    /\ TotalReceived = 3
    /\ metrics["noTenantFound"] = 0
    /\ metrics["droppedWrites"] = 0

(***************************************************************************)
(* C28: while the tags of an enqueued query do not change, every query in  *)
(* tenant T's queue and in a batch handed to writeBatch for T classifies   *)
(* to T, so the double check of writeBatch removes nothing and             *)
(* wrong_tenant stays 0.                                                   *)
(***************************************************************************)
C28_Routed ==
    /\ \A t \in DOMAIN pendingQuery :
          \A k \in DOMAIN pendingQuery[t] : getTenant(pendingQuery[t][k]) = t
    /\ \A k \in DOMAIN loop.dataBatch : getTenant(loop.dataBatch[k]) = loop.t
    /\ \A s \in DOMAIN workers :
          \A k \in DOMAIN workers[s].queries :
              getTenant(workers[s].queries[k]) = workers[s].t
    /\ metrics["wrongTenant"] = 0

C28_CheckRemovesNothing ==
    \A s \in DOMAIN workers :
        (workers[s].pc = "writeBatch" /\ workers'[s].pc # "writeBatch") =>
            workers'[s].queries = workers[s].queries

C28_RoutingInvariant == [](C28_Routed) /\ [][C28_CheckRemovesNothing]_vars

\* A full batch of two for tenant "A", one of them matching both rules,
\* went through writeBatch and reached the endpoint whole.
C28_Witness ==
    /\ metrics["batchWrite"] = 2
    /\ metrics["wrongTenant"] = 0
    /\ \E r \in BagToSet(received) :
          /\ r.tenant = "A"
          /\ Len(r.queries) = 2
          /\ \E k \in DOMAIN r.queries : r.queries[k].tags = {"a", "b"}

(***************************************************************************)
(* C29: Write and Close are safe to interleave: no Write, whether it       *)
(* starts after Close has closed the channel or was waiting for room on    *)
(* the channel when Close closed it, sends on the closed channel, and the  *)
(* process does not crash.                                                 *)
(***************************************************************************)
C29_WriteSafeWithClose ==
    /\ ~panicked
    /\ \A k \in DOMAIN returns.Write : returns.Write[k].err # "panic"

(***************************************************************************)
(* C30: counter accounting.  When Close returns, enqueued = batch_write +  *)
(* tick_write + dropped_writes + the number of Add calls that overflowed;  *)
(* batch_write is a multiple of queueSize, every batch Add returns having  *)
(* queueSize queries (so the overflowing Adds number batch_write /         *)
(* queueSize); tick_write grows by the size of every non-empty batch a     *)
(* Flush pops, on a tick or in the drain, whatever becomes of the batch.   *)
(* Write increments enqueued after its send, so the equation is one of the *)
(* states in which every Write that sent has returned.                     *)
(***************************************************************************)
OverflowedAdds == metrics["batchWrite"] \div opts.queueSize

Accounted ==
    metrics["batchWrite"] + metrics["tickWrite"] + metrics["droppedWrites"]
        + OverflowedAdds

C30_FullBatches ==
    /\ metrics["batchWrite"] % opts.queueSize = 0
    /\ Len(loop.dataBatch) \in {0, opts.queueSize}
    /\ \A s \in DOMAIN workers :
          (workers[s].kind = "batch" /\ workers[s].pc = "writeBatch") =>
              Len(workers[s].queries) = opts.queueSize

C30_FlushCounts ==
    \A s \in DOMAIN workers :
        workers[s].pc = "pop" /\ workers'[s].pc # "pop" =>
            /\ metrics'["tickWrite"] =
                  metrics["tickWrite"] + Len(pendingQuery[workers[s].t])
            /\ workers'[s].queries = pendingQuery[workers[s].t]
            /\ pendingQuery'[workers[s].t] = <<>>

C30_AtCloseReturn == closer = "returned" => metrics["enqueued"] = Accounted

C30_AtCloseReturnQuiet ==
    (closer = "returned" /\ writers = {}) => metrics["enqueued"] = Accounted

\* As stated, for every state in which Close has returned:
C30_AtCloseReturnAsStated == C30_FullBatches /\ C30_AtCloseReturn

\* and with every Write that sent its query returned:
C30_CounterAccounting ==
    /\ [](C30_FullBatches)
    /\ [](C30_AtCloseReturnQuiet)
    /\ [][C30_FlushCounts /\ (metrics'["tickWrite"] # metrics["tickWrite"] =>
                                 \E s \in DOMAIN workers : workers[s].pc = "pop")]_vars

\* Queue size 1, three Writes returned, Close returned: the first query left
\* in the batch the second one's Add returned, the second was the argument
\* of that Add, the third was popped by the drain's Flush; both batches
\* failed on their way.
C30_Witness ==
    /\ closer = "returned"
    /\ writers = {}
    /\ metrics["enqueued"] = 3
    /\ metrics["batchWrite"] = 1
    /\ metrics["tickWrite"] = 1
    /\ OverflowedAdds = 1
    /\ metrics["batchWriteErr"] = 2
    /\ TotalReceived = 0

(***************************************************************************)
(* C31: the tenant header of every POST is the batch's tenant key, also    *)
(* when endpoint.otherHeaders has an entry of the same header name (the    *)
(* tenant header is set after otherHeaders and replaces it), and the       *)
(* request has an Authorization header exactly when apiToken is not empty. *)
(***************************************************************************)
\* The jobs whose request is built: in the retry loop or past it.
Posting == {job \in Jobs : job.pc = "attempt" \/ job.resps # <<>>}

NamesAuthorization(names) ==
    \E name \in names : CanonicalMIMEHeaderKey(name) = "Authorization"

C31_TenantHeaderIsBatchTenant ==
    /\ \A job \in Posting : TenantHeader(job.header) = job.t
    /\ \A r \in BagToSet(received) : AllClassifyTo(r.tenant, r.queries)

C31_AuthorizationIffToken ==
    \A job \in Posting :
        "Authorization" \in DOMAIN job.header <=> opts.endpoint.apiToken # ""

C31_HeadersAsStated == C31_TenantHeaderIsBatchTenant /\ C31_AuthorizationIffToken

\* Authorization is there as well when otherHeaders (or the tenant header)
\* names it; the token's value is sent when neither does.
C31_AuthorizationIffConfigured ==
    \A job \in Posting :
        LET configured ==
                NamesAuthorization(DOMAIN opts.endpoint.otherHeaders
                                       \cup {opts.endpoint.tenantHeader})
        IN  /\ "Authorization" \in DOMAIN job.header <=>
                  (opts.endpoint.apiToken # "" \/ configured)
            /\ (opts.endpoint.apiToken # "" /\ ~configured) =>
                  job.header["Authorization"] =
                      BasicAuth(job.t, opts.endpoint.apiToken)

C31_TenantHeaderSetLast ==
    C31_TenantHeaderIsBatchTenant /\ C31_AuthorizationIffConfigured

\* otherHeaders names the tenant header in lower case with another value
\* and there is a token: the batch of tenant "A" arrived under "A", with
\* the Basic credentials of "A".
C31_Witness ==
    /\ opts.endpoint.apiToken = "secret"
    /\ "x-scope-orgid" \in DOMAIN opts.endpoint.otherHeaders
    /\ \E r \in BagToSet(received) : r.tenant = "A"
    /\ \E job \in Posting :
          /\ job.t = "A"
          /\ job.pc = "ret"
          /\ job.header["X-Scope-Orgid"] = <<"A">>
          /\ job.header["Authorization"] = BasicAuth("A", "secret")

====
